---- MODULE Spec2Model ----
(***************************************************************************)
(* Model of src/electron-starter/src/js/main/WindowManager.js: the window  *)
(* registry (a Map from window type to BrowserWindow), the windows it      *)
(* creates together with their 'closed' handlers, and the RequestShowURL   *)
(* IPC handler.                                                            *)
(***************************************************************************)
EXTENDS Integers, Sequences, FiniteSets, TLC

\* ---- bounds ----
MaxWindows == 3      \* BrowserWindow instances constructed in one run
MaxRequests == 2     \* RequestShowURL messages received in one run
MaxDispatch == 3     \* calls of the bound callbacks in one run

\* ---- values ----
Undefined == "undefined"          \* the JavaScript value undefined, as a type argument
NoWindow == 0                     \* Map.get() result for a missing key
WindowTypes == [Main |-> "main", About |-> "about"]
Main == WindowTypes.Main
About == WindowTypes.About
\* obj.name on WindowTypes: a missing property reads as undefined
Prop(name) == IF name \in DOMAIN WindowTypes THEN WindowTypes[name] ELSE Undefined
\* methods the class defines
Methods == {"getWindow", "close", "show", "toggle", "reload", "toggleDevTools",
            "_showMain", "_showAbout", "_onRequestShowURL"}
\* arguments callers pass as `type`
TypeArgs == {Main, About, Undefined, "settings"}
\* RequestShowURL messages renderers send: ev.sender and the url payload
Requests == { [sender |-> "renderer1", url |-> "https://example.com"],
              [sender |-> "renderer2", url |-> "https://example.org/a"] }
\* arguments the Explorer component passes to the bound callbacks
Paths == {"/", "/home", "/tmp"}
Folders == {"folderA", "folderB"}
\* the window types other than Main
OtherTypes == {WindowTypes[n] : n \in DOMAIN WindowTypes} \ {Main}

VARIABLES
  windows,     \* this._windows: sequence of [key, value] entries in insertion order
  wins,        \* every BrowserWindow constructed so far: [kind, state, visible]
  threw,       \* the last call ended in an uncaught TypeError
  showCalled,  \* window types show() has been entered with
  received,    \* every RequestShowURL message delivered so far: [sender, url]
  effects,     \* calls made on the shell, the console and ev.sender, in order
  calls,       \* calls of the bound callbacks so far: [fn, arg]
  dispatched,  \* actions handed to the store's dispatch, in order
  focused,     \* BrowserWindow.getFocusedWindow(): the window with input focus, 0 if none
  lastOp       \* the call, callback or focus change that came last: [op, type, id], id being the
               \* window it constructed, returned, acted on or concerned (0: none)

vars == <<windows, wins, threw, showCalled, received, effects, calls, dispatched, focused, lastOp>>

\* ---- Map ----
RECURSIVE MapGet(_, _)
MapGet(m, k) ==
  IF m = <<>> THEN NoWindow
  ELSE IF Head(m).key = k THEN Head(m).value ELSE MapGet(Tail(m), k)

MapHas(m, k) == \E i \in 1..Len(m) : m[i].key = k

MapSet(m, k, v) ==
  IF MapHas(m, k)
  THEN [i \in 1..Len(m) |-> IF m[i].key = k THEN [key |-> k, value |-> v] ELSE m[i]]
  ELSE Append(m, [key |-> k, value |-> v])

RECURSIVE MapDelete(_, _)
MapDelete(m, k) ==
  IF m = <<>> THEN <<>>
  ELSE IF Head(m).key = k THEN MapDelete(Tail(m), k)
       ELSE <<Head(m)>> \o MapDelete(Tail(m), k)

\* ---- BrowserWindow ----
NewBrowserWindow(kind) == [kind |-> kind, state |-> "open", visible |-> TRUE]

\* windows that can hold input focus: not destroyed and on screen
CanFocus(ws, id) == id \in 1..Len(ws) /\ ws[id].state # "closed" /\ ws[id].visible

\* w.close(): the window starts closing; 'closed' is emitted later
WinClose(ws, id) == [ws EXCEPT ![id].state = "closing"]
WinHide(ws, id) == [ws EXCEPT ![id].visible = FALSE]
WinShow(ws, id) == [ws EXCEPT ![id].visible = TRUE]

\* ---- the manager's methods, as functions of the state s ----
Cur == [windows |-> windows, wins |-> wins, threw |-> FALSE, showCalled |-> showCalled]

\* getWindow() that ignores its argument and looks up Main
getWindow_Main(s, type) == MapGet(s.windows, Main)

getWindow(s, type) == MapGet(s.windows, type)

\* close() without the missing-handle guard: undefined.close() is a TypeError
close_NoGuard(s, type) ==
  LET w == MapGet(s.windows, type) IN
  IF w = NoWindow THEN [s EXCEPT !.threw = TRUE]
  ELSE [s EXCEPT !.wins = WinClose(@, w)]

\* close() that also forgets the handle at once
close_AndDelete(s, type) ==
  LET w == MapGet(s.windows, type) IN
  IF w = NoWindow THEN s
  ELSE [s EXCEPT !.wins = WinClose(@, w), !.windows = MapDelete(@, type)]

\* close() that closes every registered window
close_All(s, type) ==
  LET w == MapGet(s.windows, type) IN
  IF w = NoWindow THEN s
  ELSE [s EXCEPT !.wins = [id \in 1..Len(s.wins) |->
                             IF \E i \in 1..Len(s.windows) : s.windows[i].value = id
                             THEN [s.wins[id] EXCEPT !.state = "closing"]
                             ELSE s.wins[id]]]

close(s, type) ==
  LET w == MapGet(s.windows, type) IN
  IF w = NoWindow THEN s
  ELSE [s EXCEPT !.wins = WinClose(@, w)]

\* _showMain() without the early return
_showMain_NoGuard(s) ==
  LET id == Len(s.wins) + 1 IN
  [s EXCEPT !.wins = Append(@, NewBrowserWindow(Main)),
            !.windows = MapSet(@, Main, id)]

_showMain(s) ==
  IF MapGet(s.windows, Main) # NoWindow THEN s
  ELSE LET id == Len(s.wins) + 1 IN
       [s EXCEPT !.wins = Append(@, NewBrowserWindow(Main)),
                 !.windows = MapSet(@, Main, id)]

\* _showAbout() without the early return
_showAbout_NoGuard(s) ==
  LET id == Len(s.wins) + 1 IN
  [s EXCEPT !.wins = Append(@, NewBrowserWindow(About)),
            !.windows = MapSet(@, About, id)]

\* _showAbout() that never registers the window
_showAbout_NoSet(s) ==
  IF MapGet(s.windows, About) # NoWindow THEN s
  ELSE [s EXCEPT !.wins = Append(@, NewBrowserWindow(About))]

\* _showAbout() that does nothing while there is no Main window
_showAbout_NeedsMain(s) ==
  IF MapGet(s.windows, About) # NoWindow \/ MapGet(s.windows, Main) = NoWindow THEN s
  ELSE LET id == Len(s.wins) + 1 IN
       [s EXCEPT !.wins = Append(@, NewBrowserWindow(About)),
                 !.windows = MapSet(@, About, id)]

_showAbout(s) ==
  IF MapGet(s.windows, About) # NoWindow THEN s
  ELSE LET id == Len(s.wins) + 1 IN
       [s EXCEPT !.wins = Append(@, NewBrowserWindow(About)),
                 !.windows = MapSet(@, About, id)]

\* this.name(): a TypeError when the class has no such method
CallMissing(s, name) == IF name \in Methods THEN s ELSE [s EXCEPT !.threw = TRUE]

show(s0, type) ==
  LET s == [s0 EXCEPT !.showCalled = @ \cup ({type} \cap ({Main} \cup OtherTypes))] IN
  IF type = Prop("Main") THEN _showMain(s)
  ELSE IF type = Prop("About") THEN _showAbout(s)
  ELSE IF type = Prop("GraphicEqualizer") THEN CallMissing(s, "_showGraphicEqualizer")
  ELSE s

\* toggle() without the early return for Main
toggle_NoMainReturn(s, type) ==
  LET w == MapGet(s.windows, type) IN
  IF w # NoWindow
  THEN IF s.wins[w].visible
       THEN [s EXCEPT !.wins = WinHide(@, w)]
       ELSE [s EXCEPT !.wins = WinShow(@, w)]
  ELSE show(s, type)

\* toggle() that does nothing for a missing handle
toggle_NoDelegate(s, type) ==
  IF type = Main THEN s
  ELSE LET w == MapGet(s.windows, type) IN
       IF w # NoWindow
       THEN IF s.wins[w].visible
            THEN [s EXCEPT !.wins = WinHide(@, w)]
            ELSE [s EXCEPT !.wins = WinShow(@, w)]
       ELSE s

\* toggle() that hides whether or not the window is visible
toggle_AlwaysHide(s, type) ==
  IF type = Main THEN s
  ELSE LET w == MapGet(s.windows, type) IN
       IF w # NoWindow THEN [s EXCEPT !.wins = WinHide(@, w)]
       ELSE show(s, type)

toggle(s, type) ==
  IF type = Main THEN s
  ELSE LET w == MapGet(s.windows, type) IN
       IF w # NoWindow
       THEN IF s.wins[w].visible
            THEN [s EXCEPT !.wins = WinHide(@, w)]
            ELSE [s EXCEPT !.wins = WinShow(@, w)]
       ELSE show(s, type)

\* reload() and toggleDevTools(), f being what getFocusedWindow() returns:
\* the window the call is made on, none when nothing is focused
\* reload() that addresses the Main entry instead of the focused window
reload_Main(s, f) == MapGet(s.windows, Main)

reload(s, f) == IF f # NoWindow THEN f ELSE NoWindow

toggleDevTools(s, f) == IF f # NoWindow THEN f ELSE NoWindow

\* the 'closed' handler registered by _showMain
RECURSIVE CloseOthers(_, _)
CloseOthers(entries, ws) ==
  IF entries = <<>> THEN ws
  ELSE IF Head(entries).key = Main THEN CloseOthers(Tail(entries), ws)
       ELSE CloseOthers(Tail(entries), WinClose(ws, Head(entries).value))

\* Main's 'closed' handler without the forEach over the other windows
MainClosedHandler_NoCascade(s) == [s EXCEPT !.windows = MapDelete(@, Main)]

\* Main's 'closed' handler that closes the others and keeps the Main entry
MainClosedHandler_NoDelete(s) == [s EXCEPT !.wins = CloseOthers(s.windows, @)]

MainClosedHandler(s) ==
  [s EXCEPT !.wins = CloseOthers(s.windows, @),
            !.windows = MapDelete(@, Main)]

\* the 'closed' handler registered by _showAbout
\* About's 'closed' handler that leaves the entry in the Map
AboutClosedHandler_Keep(s) == s

AboutClosedHandler(s) == [s EXCEPT !.windows = MapDelete(@, About)]

\* _onRequestShowURL( ev, url )
\* _onRequestShowURL() that never answers the sender
OnRequestShowURLEffects_NoAck(msg) ==
  << [kind |-> "console.log", arg |-> msg.url],
     [kind |-> "openExternal", arg |-> msg.url] >>

\* _onRequestShowURL() that answers the sender before calling the shell
OnRequestShowURLEffects_AckFirst(msg) ==
  << [kind |-> "console.log", arg |-> msg.url],
     [kind |-> "send", arg |-> msg.sender],
     [kind |-> "openExternal", arg |-> msg.url] >>

OnRequestShowURLEffects(msg) ==
  << [kind |-> "console.log", arg |-> msg.url],
     [kind |-> "openExternal", arg |-> msg.url],
     [kind |-> "send", arg |-> msg.sender] >>

\* ---- the Explorer container's dispatch mapping ----
\* the action creators imported from '../actions/index'
enumSubFolders(folderPath) == [type |-> "enumSubFolders", arg |-> folderPath]
enumItems(folder) == [type |-> "enumItems", arg |-> folder]

\* mapDispatchToProps whose enumItems callback dispatches the other action
mapDispatchToProps_Swapped(d) ==
  [enumSubFolders |-> [folderPath \in Paths |-> Append(d, enumSubFolders(folderPath))],
   enumItems |-> [folder \in Folders |-> Append(d, enumSubFolders(folder))]]

\* mapDispatchToProps(dispatch): d is what dispatch has been given so far and
\* each callback yields what it has been given after the call
mapDispatchToProps(d) ==
  [enumSubFolders |-> [folderPath \in Paths |-> Append(d, enumSubFolders(folderPath))],
   enumItems |-> [folder \in Folders |-> Append(d, enumItems(folder))]]

\* ---- actions ----
Apply(r) ==
  /\ Len(r.wins) <= MaxWindows
  /\ windows' = r.windows
  /\ wins' = r.wins
  /\ threw' = r.threw
  /\ showCalled' = r.showCalled
  /\ focused' = IF CanFocus(r.wins, focused) THEN focused ELSE 0
  /\ UNCHANGED <<calls, dispatched>>

Op(op, type, id) == [op |-> op, type |-> type, id |-> id]

\* the window a call constructed, 0 when it constructed none
Constructed(r) == IF Len(r.wins) > Len(wins) THEN Len(r.wins) ELSE 0

Show(type) ==
  /\ Apply(show(Cur, type))
  /\ lastOp' = Op("show", type, Constructed(show(Cur, type)))
  /\ UNCHANGED <<received, effects>>

Toggle(type) ==
  /\ Apply(toggle(Cur, type))
  /\ lastOp' = Op("toggle", type, Constructed(toggle(Cur, type)))
  /\ UNCHANGED <<received, effects>>

Close(type) ==
  /\ Apply(close(Cur, type))
  /\ lastOp' = Op("close", type, 0)
  /\ UNCHANGED <<received, effects>>

GetWindow(type) ==
  /\ Apply(Cur)
  /\ lastOp' = Op("getWindow", type, getWindow(Cur, type))
  /\ UNCHANGED <<received, effects>>

\* the toolkit destroys window id (asked to by close(), or on the user's
\* request) and emits 'closed' to the handler registered at its creation
Closed(id) ==
  /\ id \in 1..Len(wins)
  /\ wins[id].state # "closed"
  /\ LET s == [Cur EXCEPT !.wins[id].state = "closed", !.wins[id].visible = FALSE] IN
     IF wins[id].kind = Main THEN Apply(MainClosedHandler(s))
     ELSE Apply(AboutClosedHandler(s))
  /\ lastOp' = Op("closed", wins[id].kind, id)
  /\ UNCHANGED <<received, effects>>

\* context.ipc delivers a RequestShowURL message to the one listener the
\* constructor registered
OnRequestShowURL(msg) ==
  /\ Len(received) < MaxRequests
  /\ received' = Append(received, msg)
  /\ effects' = effects \o OnRequestShowURLEffects(msg)
  /\ lastOp' = Op("ipc", "none", 0)
  /\ threw' = FALSE
  /\ UNCHANGED <<windows, wins, showCalled, focused, calls, dispatched>>

Reload ==
  /\ Apply(Cur)
  /\ lastOp' = Op("reload", "none", reload(Cur, focused))
  /\ UNCHANGED <<received, effects>>

ToggleDevTools ==
  /\ Apply(Cur)
  /\ lastOp' = Op("toggleDevTools", "none", toggleDevTools(Cur, focused))
  /\ UNCHANGED <<received, effects>>

\* the user gives input focus to a window of the application, or takes it away
Focus(id) ==
  /\ CanFocus(wins, id) /\ focused # id
  /\ focused' = id
  /\ lastOp' = Op("focus", "none", id)
  /\ UNCHANGED <<windows, wins, threw, showCalled, received, effects, calls, dispatched>>

Blur ==
  /\ focused # 0
  /\ focused' = 0
  /\ lastOp' = Op("blur", "none", 0)
  /\ UNCHANGED <<windows, wins, threw, showCalled, received, effects, calls, dispatched>>

\* the Explorer component calls props.enumSubFolders(folderPath)
CallEnumSubFolders(folderPath) ==
  /\ Len(calls) < MaxDispatch
  /\ calls' = Append(calls, [fn |-> "enumSubFolders", arg |-> folderPath])
  /\ dispatched' = mapDispatchToProps(dispatched).enumSubFolders[folderPath]
  /\ UNCHANGED <<windows, wins, threw, showCalled, received, effects, focused, lastOp>>

\* the Explorer component calls props.enumItems(folder)
CallEnumItems(folder) ==
  /\ Len(calls) < MaxDispatch
  /\ calls' = Append(calls, [fn |-> "enumItems", arg |-> folder])
  /\ dispatched' = mapDispatchToProps(dispatched).enumItems[folder]
  /\ UNCHANGED <<windows, wins, threw, showCalled, received, effects, focused, lastOp>>

Init ==
  /\ windows = <<>>
  /\ wins = <<>>
  /\ threw = FALSE
  /\ showCalled = {}
  /\ received = <<>>
  /\ effects = <<>>
  /\ calls = <<>>
  /\ dispatched = <<>>
  /\ focused = 0
  /\ lastOp = Op("constructor", "none", 0)

Next ==
  \/ \E type \in TypeArgs : Show(type)
  \/ \E type \in TypeArgs : Toggle(type)
  \/ \E type \in TypeArgs : Close(type)
  \/ \E type \in TypeArgs : GetWindow(type)
  \/ \E id \in 1..MaxWindows : Closed(id)
  \/ \E msg \in Requests : OnRequestShowURL(msg)
  \/ Reload
  \/ ToggleDevTools
  \/ \E id \in 1..MaxWindows : Focus(id)
  \/ Blur

Spec == Init /\ [][Next]_vars

\* the Explorer container, which shares nothing with the window manager
BindingNext ==
  \/ \E folderPath \in Paths : CallEnumSubFolders(folderPath)
  \/ \E folder \in Folders : CallEnumItems(folder)

BindingSpec == Init /\ [][BindingNext]_vars

\* a window asked to close is closed by the toolkit: nothing in this code vetoes it
FairSpec == Spec /\ \A id \in 1..MaxWindows : WF_vars(Closed(id) /\ wins[id].state = "closing")

TypeOK ==
  /\ \A i \in 1..Len(windows) : windows[i].key \in TypeArgs /\ windows[i].value \in 1..Len(wins)
  /\ \A i \in 1..Len(wins) : wins[i].kind \in {Main, About}
  /\ threw \in BOOLEAN

\* ---- claims ----
Absent(t) == getWindow(Cur, t) = NoWindow
Created(t) == getWindow(Cur, t) # NoWindow
LiveOf(kind) == {id \in 1..Len(wins) : wins[id].kind = kind /\ wins[id].state # "closed"}
Handled == Len(received)
EffectsOf(kind) == SelectSeq(effects, LAMBDA e : e.kind = kind)

\* C1: once Main's close notification has been handled while another window
\* type is Created, that type's entry eventually becomes Absent (the toolkit
\* closing every window that was asked to close).
C1_CascadingClose ==
  \A t \in OtherTypes :
    (lastOp.op = "closed" /\ lastOp.type = Main /\ Created(t)) ~> Absent(t)

\* Main's handler has just run and About, still registered, was asked to close
C1_Witness ==
  /\ lastOp.op = "closed" /\ lastOp.type = Main
  /\ Created(About) /\ wins[getWindow(Cur, About)].state = "closing"
  /\ Absent(Main)

\* C2: the registry never holds two entries for one type, and no type has two
\* windows that were constructed and have not yet reported closed.
C2_OnePerType ==
  /\ \A i, j \in 1..Len(windows) : windows[i].key = windows[j].key => i = j
  /\ \A kind \in {Main, About} : Cardinality(LiveOf(kind)) <= 1

\* both types live after an earlier window was closed and replaced
C2_Witness ==
  /\ Created(Main) /\ Created(About)
  /\ \E id \in 1..Len(wins) : wins[id].state = "closed"
  /\ Len(wins) = 3

\* C3: show(Main) and show(About) on a type that is already Created construct
\* no window and leave the registry and the windows as they are; so does a
\* show(type) that directly follows a show(type).
C3_ShowIdempotent ==
  [][\A t \in {Main, About} :
       (/\ lastOp'.op = "show" /\ lastOp'.type = t
        /\ Created(t) \/ (lastOp.op = "show" /\ lastOp.type = t))
       => (lastOp'.id = 0 /\ windows' = windows /\ wins' = wins /\ ~threw')]_vars

\* show(About) has returned without constructing anything, the About window
\* still hidden as toggle left it
C3_Witness ==
  /\ lastOp = Op("show", About, 0)
  /\ Created(About) /\ ~wins[getWindow(Cur, About)].visible

\* C4: toggle(Main) changes nothing, whether Main is Absent or Created.
C4_ToggleMainNoop ==
  [][(lastOp'.op = "toggle" /\ lastOp'.type = Main)
       => (lastOp'.id = 0 /\ windows' = windows /\ wins' = wins /\ ~threw'
           /\ showCalled' = showCalled)]_vars

\* toggle(Main) has returned with Main Created and visible
C4_Witness ==
  /\ lastOp = Op("toggle", Main, 0)
  /\ Created(Main) /\ wins[getWindow(Cur, Main)].visible

\* C5: for a type other than Main whose entry is Absent, toggle(type) leaves
\* exactly the state show(type) would leave.
C5_ToggleAbsentIsShow ==
  [][\A t \in TypeArgs \ {Main} :
       (lastOp'.op = "toggle" /\ lastOp'.type = t /\ Absent(t))
       => LET r == show(Cur, t) IN
          /\ windows' = r.windows /\ wins' = r.wins
          /\ threw' = r.threw /\ showCalled' = r.showCalled
          /\ lastOp'.id = Constructed(r)]_vars

\* toggle(About) has constructed and registered the About window
C5_Witness ==
  /\ lastOp.op = "toggle" /\ lastOp.type = About /\ lastOp.id # 0
  /\ getWindow(Cur, About) = lastOp.id
  /\ wins[lastOp.id] = NewBrowserWindow(About)

\* C6: close(type) on an Absent type raises nothing, asks no window to close
\* and changes neither the registry nor any window.
C6_CloseAbsentNoop ==
  [][\A t \in TypeArgs :
       (lastOp'.op = "close" /\ lastOp'.type = t /\ Absent(t))
       => (~threw' /\ windows' = windows /\ wins' = wins)]_vars

\* close(About) has returned with About Absent while Main is open
C6_Witness ==
  /\ lastOp = Op("close", About, 0)
  /\ Absent(About) /\ ~threw
  /\ Created(Main) /\ wins[getWindow(Cur, Main)].state = "open"

\* C7: getWindow(type) is absent as long as show(type) was never called, and
\* is a handle in the state show(type) returns in (type being Main or About).
C7_GetWindowAroundShow ==
  /\ \A t \in {Main, About} : t \notin showCalled => getWindow(Cur, t) = NoWindow
  /\ \A t \in {Main, About} :
       (lastOp.op = "show" /\ lastOp.type = t) => getWindow(Cur, t) # NoWindow

\* show(About) has just constructed its window, show(Main) not called yet
C7_Witness ==
  /\ lastOp.op = "show" /\ lastOp.type = About /\ lastOp.id # 0
  /\ getWindow(Cur, About) = lastOp.id
  /\ Main \notin showCalled /\ getWindow(Cur, Main) = NoWindow

\* C8: after n RequestShowURL messages have been handled there have been
\* exactly n openExternal calls, the i-th with the i-th message's url, and
\* exactly n acknowledgments.
C8_OneOpenOneAck ==
  /\ Len(EffectsOf("openExternal")) = Handled
  /\ Len(EffectsOf("send")) = Handled
  /\ \A i \in 1..Handled : EffectsOf("openExternal")[i].arg = received[i].url

\* two different messages have been handled
C8_Witness ==
  /\ Handled = 2 /\ received[1].url # received[2].url
  /\ lastOp.op = "ipc"

\* C9: an entry appears only in show(type) or toggle(type), disappears only
\* in the close notification of the window it holds, and never changes its
\* handle otherwise; close() changes no entry.
C9_EntryTransitions ==
  [][/\ \A t \in TypeArgs :
          /\ (Absent(t) /\ getWindow(Cur, t)' # NoWindow)
               => (lastOp'.op \in {"show", "toggle"} /\ lastOp'.type = t)
          /\ (Created(t) /\ getWindow(Cur, t)' = NoWindow)
               => lastOp' = Op("closed", t, getWindow(Cur, t))
          /\ (Created(t) /\ getWindow(Cur, t)' # NoWindow)
               => getWindow(Cur, t)' = getWindow(Cur, t)
     /\ lastOp'.op = "close" => windows' = windows]_vars

\* close(About) has returned: the window is closing and still registered
C9_Witness ==
  /\ lastOp = Op("close", About, 0)
  /\ Created(About) /\ wins[getWindow(Cur, About)].state = "closing"

\* C10: show(type) with a type that is neither Main nor About raises nothing,
\* constructs no window and leaves the registry unchanged.
C10_UnrecognizedShowNoop ==
  [][\A t \in TypeArgs \ {Main, About} :
       (lastOp'.op = "show" /\ lastOp'.type = t)
       => (~threw' /\ lastOp'.id = 0 /\ windows' = windows /\ wins' = wins)]_vars
\* C11: toggle(type) on a Created type other than Main flips the visibility of
\* that type's window and changes nothing else: no window is constructed and
\* the registry stays as it is.
C11_ToggleFlipsVisibility ==
  [][\A t \in TypeArgs \ {Main} :
       (lastOp'.op = "toggle" /\ lastOp'.type = t /\ Created(t))
       => LET w == MapGet(windows, t) IN
          /\ wins' = [wins EXCEPT ![w].visible = ~wins[w].visible]
          /\ windows' = windows /\ lastOp'.id = 0 /\ ~threw']_vars

\* toggle(About) has returned having hidden the open About window
C11_Witness ==
  /\ lastOp = Op("toggle", About, 0)
  /\ Created(About)
  /\ wins[MapGet(windows, About)] = [kind |-> About, state |-> "open", visible |-> FALSE]

\* C12: close(type) on a Created type asks that type's window to close, leaves
\* every other window as it is and changes no registry entry.
C12_CloseOnlyThatWindow ==
  [][\A t \in TypeArgs :
       (lastOp'.op = "close" /\ lastOp'.type = t /\ Created(t))
       => LET w == MapGet(windows, t) IN
          /\ wins' = [wins EXCEPT ![w].state = "closing"]
          /\ windows' = windows /\ ~threw']_vars

\* close(About) has returned: About is closing, Main is open and registered
C12_Witness ==
  /\ lastOp = Op("close", About, 0)
  /\ Created(About) /\ wins[MapGet(windows, About)].state = "closing"
  /\ Created(Main) /\ wins[MapGet(windows, Main)].state = "open"
\* C13: reload() and toggleDevTools() act on the window that has input focus
\* and on no window when none has it; they change neither the registry nor
\* any window's existence or visibility.
C13_FocusedWindowOnly ==
  [][lastOp'.op \in {"reload", "toggleDevTools"}
       => (lastOp'.id = focused /\ windows' = windows /\ wins' = wins
           /\ focused' = focused /\ ~threw')]_vars

\* reload() has acted on the focused About window while Main is registered
C13_Witness ==
  /\ lastOp.op = "reload" /\ lastOp.id # NoWindow
  /\ lastOp.id = focused /\ focused = MapGet(windows, About)
  /\ Created(Main)

\* C14: getWindow(type) returns the registry's entry for type (absent when
\* there is none) and changes neither the registry nor any window; called
\* again at once it returns the same.
C14_GetWindowPure ==
  [][\A t \in TypeArgs :
       (lastOp'.op = "getWindow" /\ lastOp'.type = t)
       => /\ lastOp'.id = MapGet(windows, t)
          /\ windows' = windows /\ wins' = wins /\ ~threw'
          /\ (lastOp.op = "getWindow" /\ lastOp.type = t) => lastOp'.id = lastOp.id]_vars

\* getWindow(About) has returned the About handle while Main is registered too
C14_Witness ==
  /\ lastOp.op = "getWindow" /\ lastOp.type = About
  /\ lastOp.id # NoWindow /\ lastOp.id = MapGet(windows, About)
  /\ MapGet(windows, Main) # NoWindow

\* C15: every call of the bound enumSubFolders(path) hands dispatch exactly one
\* action, enumSubFolders(path), and every call of the bound enumItems(folder)
\* exactly one, enumItems(folder); what a call dispatches depends on that
\* call's argument alone.
C15_OneActionPerCallback ==
  /\ Len(dispatched) = Len(calls)
  /\ \A i \in 1..Len(calls) :
       dispatched[i] = IF calls[i].fn = "enumSubFolders"
                       THEN enumSubFolders(calls[i].arg)
                       ELSE enumItems(calls[i].arg)

\* both callbacks have been called, enumSubFolders twice with different paths
C15_Witness ==
  /\ Len(calls) = 3
  /\ calls[1].fn = "enumSubFolders" /\ calls[2].fn = "enumItems"
  /\ calls[3].fn = "enumSubFolders" /\ calls[3].arg # calls[1].arg

\* C16: for the i-th message handled, the shell call with its url comes
\* before the acknowledgment, the acknowledgment goes to that message's
\* sender, and handling a message leaves the registry and the windows alone.
C16_AckToSenderAfterOpen ==
  /\ [](\A i \in 1..Handled :
          /\ effects[3 * i - 1] = [kind |-> "openExternal", arg |-> received[i].url]
          /\ effects[3 * i] = [kind |-> "send", arg |-> received[i].sender])
  /\ [][lastOp'.op = "ipc" => (windows' = windows /\ wins' = wins)]_vars

\* two renderers have each been answered, with a window registered
C16_Witness ==
  /\ Handled = 2 /\ received[1].sender # received[2].sender
  /\ lastOp.op = "ipc"
  /\ windows # <<>>

\* C17: the handles in the registry are exactly the windows constructed and
\* not yet reported closed, each under the key of its own type.
C17_RegistryIsLiveWindows ==
  /\ {windows[i].value : i \in 1..Len(windows)} = LiveOf(Main) \cup LiveOf(About)
  /\ \A i \in 1..Len(windows) : wins[windows[i].value].kind = windows[i].key

\* a first About window has reported closed and a later one is registered
C17_Witness ==
  /\ \E id \in 1..Len(wins) :
       /\ wins[id].kind = About /\ wins[id].state = "closed"
       /\ MapGet(windows, About) > id
  /\ lastOp.op = "closed"

\* C18: after a window's close notification its type's entry is absent, and
\* show(type) on an absent Main or About constructs a new window and
\* registers it under type.
C18_RecreateAfterClose ==
  [][/\ lastOp'.op = "closed" => MapGet(windows', lastOp'.type) = NoWindow
     /\ \A t \in {Main, About} :
          (lastOp'.op = "show" /\ lastOp'.type = t /\ Absent(t))
          => /\ lastOp'.id = Len(wins) + 1
             /\ wins' = Append(wins, NewBrowserWindow(t))
             /\ MapGet(windows', t) = lastOp'.id]_vars

\* show(Main) has constructed a second Main window after the first closed
C18_Witness ==
  /\ lastOp.op = "show" /\ lastOp.type = Main /\ lastOp.id > 1
  /\ MapGet(windows, Main) = lastOp.id
  /\ \E id \in 1..(lastOp.id - 1) : wins[id].kind = Main /\ wins[id].state = "closed"

\* C19: with Main absent, show(About) and toggle(About) on an absent About
\* construct and register an About window; while Main stays absent that window
\* is asked to close only by close(About) and its entry goes only with its own
\* close notification.
C19_AboutWithoutMain ==
  [][Absent(Main) =>
       /\ (lastOp'.op \in {"show", "toggle"} /\ lastOp'.type = About /\ Absent(About))
          => /\ lastOp'.id = Len(wins) + 1
             /\ wins' = Append(wins, NewBrowserWindow(About))
             /\ MapGet(windows', About) = lastOp'.id
       /\ Created(About) =>
            LET w == MapGet(windows, About) IN
            /\ MapGet(windows', About) # w => lastOp' = Op("closed", About, w)
            /\ (wins[w].state = "open" /\ wins'[w].state = "closing")
                 => lastOp' = Op("close", About, 0)]_vars

\* About was shown after Main had closed and is still open and registered
C19_Witness ==
  /\ Absent(Main) /\ Created(About)
  /\ wins[MapGet(windows, About)].state = "open"
  /\ \E id \in 1..Len(wins) :
       wins[id].kind = Main /\ wins[id].state = "closed" /\ id < MapGet(windows, About)
====
